---- MODULE Spec2Model ----
(***************************************************************************)
(* MqttProvider (src/src/contexts/MqttContext.tsx): the broker session     *)
(* lifecycle (connectMqtt / disconnectMqtt, the transport event handlers,  *)
(* the React commit that mirrors state into refs and runs the mqttClient   *)
(* cleanup effect) and the message normalisation that feeds dataPoints.    *)
(*                                                                         *)
(* React state (useState) takes the value of the last queued update; the   *)
(* values of the last committed render are what the callbacks' closures    *)
(* and connectionStatusRef hold, and they are brought up to date by the    *)
(* Render action.  Numbers are fixed-point tenths (15 is 1.5).  Strings    *)
(* that are parsed are sequences of one-character strings.                 *)
(***************************************************************************)
EXTENDS Integers, Sequences, FiniteSets, TLC

\* ------------------------------------------------------------ constants
MAX_DATA_POINTS == 200

HARDCODED_TOPIC == "/TFT/Response"

\* ---------------------------------------------------------------- bounds
\* transport clients that connectMqtt may open in one behaviour of SpecCommitted
MaxClients == 3

\* transport clients that connectMqtt may open in one behaviour of Spec
MaxSpecClients == 2

\* connectMqtt / disconnectMqtt calls suspended at their await at one time
MaxPending == 2

\* samples pushed between two resets of dataPoints, in Spec and SpecCommitted
MaxMsgs == 2

\* subscribe callbacks outstanding on one client
MaxSubPending == 2

\* samples pushed between two resets of dataPoints, clients and suspended calls, in
\* SpecWindow
MaxWindowMsgs == 202

MaxWindowClients == 1

MaxWindowPending == 1

\* samples pushed between two resets of dataPoints, in SpecSink
MaxSinkMsgs == 2

\* saveMqttData calls that have not settled at one time, in SpecSink
MaxSaves == 2

\* samples pushed between two resets of dataPoints, in SpecNormalize
MaxNormalizeMsgs == 2

\* mqttClient is null
NoClient == 0

Clients == 1..MaxClients

\* ------------------------------------------------------- JSON and numbers
NaN == [nan |-> TRUE, v |-> 0]

Num(n) == [nan |-> FALSE, v |-> n]

JVal(t, n, s, k, vs) == [t |-> t, num |-> n, str |-> s, keys |-> k, vals |-> vs]

JNum(n) == JVal("number", n, <<>>, <<>>, <<>>)

JStr(s) == JVal("string", 0, s, <<>>, <<>>)

JBool(b) == JVal("boolean", IF b THEN 1 ELSE 0, <<>>, <<>>, <<>>)

JNull == JVal("null", 0, <<>>, <<>>, <<>>)

JUndefined == JVal("undefined", 0, <<>>, <<>>, <<>>)

JArr(vs) == JVal("array", 0, <<>>, <<>>, vs)

JObj(k, vs) == JVal("object", 0, <<>>, k, vs)

\* JSON.parse threw
JInvalid == JVal("invalid", 0, <<>>, <<>>, <<>>)

TypeOf(j) ==
  CASE j.t = "number" -> "number"
    [] j.t = "string" -> "string"
    [] j.t = "boolean" -> "boolean"
    [] j.t = "undefined" -> "undefined"
    [] OTHER -> "object"

Truthy(j) ==
  CASE j.t = "number" -> j.num # 0
    [] j.t = "string" -> j.str # <<>>
    [] j.t = "boolean" -> j.num = 1
    [] j.t \in {"null", "undefined"} -> FALSE
    [] OTHER -> TRUE

\* j.key for a parsed value that is not null (null.key throws a TypeError)
Prop(j, key) ==
  IF j.t = "object" /\ \E i \in 1..Len(j.keys) : j.keys[i] = key
  THEN j.vals[CHOOSE i \in 1..Len(j.keys) : j.keys[i] = key]
  ELSE JUndefined

DigitChars == <<"0", "1", "2", "3", "4", "5", "6", "7", "8", "9">>

IsDigit(ch) == \E i \in 1..10 : DigitChars[i] = ch

DigitVal(ch) == (CHOOSE i \in 1..10 : DigitChars[i] = ch) - 1

RECURSIVE SkipWs(_)
SkipWs(s) == IF s # <<>> /\ Head(s) = " " THEN SkipWs(Tail(s)) ELSE s

RECURSIVE DigitRun(_)
DigitRun(s) == IF s # <<>> /\ IsDigit(Head(s)) THEN 1 + DigitRun(Tail(s)) ELSE 0

RECURSIVE DigitsValue(_, _)
DigitsValue(s, n) ==
  IF n = 0 THEN 0 ELSE DigitsValue(s, n - 1) * 10 + DigitVal(s[n])

\* parseFloat: leading blanks, an optional sign, the longest decimal prefix;
\* NaN when there is no digit.  The result is kept to one fractional digit.
ParseFloat(str) ==
  LET s0 == SkipWs(str)
      signed == s0 # <<>> /\ Head(s0) \in {"-", "+"}
      neg == s0 # <<>> /\ Head(s0) = "-"
      s1 == IF signed THEN Tail(s0) ELSE s0
      ni == DigitRun(s1)
      s2 == SubSeq(s1, ni + 1, Len(s1))
      s3 == IF s2 # <<>> /\ Head(s2) = "." THEN Tail(s2) ELSE <<>>
      nf == DigitRun(s3)
      mag == DigitsValue(s1, ni) * 10 + (IF nf > 0 THEN DigitVal(s3[1]) ELSE 0)
  IN IF ni = 0 /\ nf = 0 THEN NaN ELSE Num(IF neg THEN 0 - mag ELSE mag)

RECURSIVE NatToChars(_)
NatToChars(n) ==
  IF n < 10 THEN <<DigitChars[n + 1]>>
  ELSE NatToChars(n \div 10) \o <<DigitChars[(n % 10) + 1]>>

\* String(x) of a number: 420 (42.0) prints as "42", 15 as "1.5"
NumToChars(n) ==
  LET mag == IF n < 0 THEN 0 - n ELSE n
      body == NatToChars(mag \div 10)
              \o (IF mag % 10 = 0 THEN <<>> ELSE <<".">> \o NatToChars(mag % 10))
  IN IF n < 0 THEN <<"-">> \o body ELSE body

RECURSIVE ToChars(_)
RECURSIVE JoinChars(_)
\* Array.prototype.join(","): null and undefined elements print as ""
JoinChars(vs) ==
  IF vs = <<>> THEN <<>>
  ELSE LET h == IF Head(vs).t \in {"null", "undefined"} THEN <<>> ELSE ToChars(Head(vs))
       IN IF Len(vs) = 1 THEN h ELSE h \o <<",">> \o JoinChars(Tail(vs))

\* String(x)
ToChars(j) ==
  CASE j.t = "number" -> NumToChars(j.num)
    [] j.t = "string" -> j.str
    [] j.t = "boolean" -> IF j.num = 1 THEN <<"t", "r", "u", "e">>
                          ELSE <<"f", "a", "l", "s", "e">>
    [] j.t = "null" -> <<"n", "u", "l", "l">>
    [] j.t = "undefined" -> <<"u", "n", "d", "e", "f", "i", "n", "e", "d">>
    [] j.t = "array" -> JoinChars(j.vals)
    [] OTHER -> <<"[", "o", "b", "j", "e", "c", "t", " ", "O", "b", "j", "e", "c", "t", "]">>

\* for (const key in x): the keys of an object, the indices of an array
OwnKeys(j) ==
  CASE j.t = "object" -> j.keys
    [] j.t = "array" -> [i \in 1..Len(j.vals) |-> NatToChars(i - 1)]
    [] OTHER -> <<>>

\* Object.prototype's accessor: on the object literal sensorValues the assignment
\* sensorValues["__proto__"] = <number> runs its setter, which ignores a value
\* that is not an object, and adds no property
ProtoKey == <<"_", "_", "p", "r", "o", "t", "o", "_", "_">>

RECURSIVE SensorValues(_, _, _)
\* the loop over jsonData.tftvalue: the properties that sensorValues ends with
SensorValues(keys, vals, i) ==
  IF i > Len(keys) THEN <<>>
  ELSE LET numericValue == ParseFloat(ToChars(vals[i]))
           rest == SensorValues(keys, vals, i + 1)
       IN IF ~numericValue.nan /\ keys[i] # ProtoKey
          THEN <<[k |-> keys[i], v |-> numericValue.v]>> \o rest
          ELSE rest

\* the loop over jsonData.tftvalue: hasNumericValue when it ends
HasNumericValue(keys, vals) ==
  \E i \in 1..Len(keys) : ~ParseFloat(ToChars(vals[i])).nan

\* Object.values(x).find(v => typeof v === 'number'), 0 when there is none
FirstNumberIndex(j) ==
  IF \E i \in 1..Len(j.vals) : j.vals[i].t = "number"
  THEN CHOOSE i \in 1..Len(j.vals) :
         /\ j.vals[i].t = "number"
         /\ \A k \in 1..(i - 1) : j.vals[k].t # "number"
  ELSE 0

ValueKey == <<"v", "a", "l", "u", "e">>

TftKey == <<"t", "f", "t", "v", "a", "l", "u", "e">>

NoValues == <<>>

\* the handler calls setDataPoints with a DataPoint of these values
Sample(values) == [push |-> TRUE, values |-> values]

\* the handler does not call setDataPoints
NoSample == [push |-> FALSE, values |-> NoValues]

\* the catch block: parseFloat of the raw text
RawTextValues(text) ==
  LET valueForChart == ParseFloat(text)
  IN IF ~valueForChart.nan
     THEN Sample(<<[k |-> ValueKey, v |-> valueForChart.v]>>)
     ELSE NoSample

\* the else branch of the try block, for a parsed value that is not null
SingleValue(jsonData) ==
  IF Prop(jsonData, ValueKey).t = "number" THEN Num(Prop(jsonData, ValueKey).num)
  ELSE IF jsonData.t = "number" THEN Num(jsonData.num)
  ELSE IF TypeOf(jsonData) = "object" /\ FirstNumberIndex(jsonData) # 0
       THEN Num(jsonData.vals[FirstNumberIndex(jsonData)].num)
  ELSE NaN

\* the try block throws: JSON.parse rejects the text, or the text is null and the
\* else branch reads jsonData.value of null
TryThrows(jsonData) == jsonData.t \in {"invalid", "null"}

\* Whether the message handler pushes a DataPoint for a payload, and the values
\* of that DataPoint.
Normalize(p) ==
  LET jsonData == p.json
  IN IF TryThrows(jsonData) THEN RawTextValues(p.text)
     ELSE IF Truthy(jsonData) /\ TypeOf(Prop(jsonData, TftKey)) = "object"
             /\ Prop(jsonData, TftKey).t # "null"
          THEN LET tft == Prop(jsonData, TftKey)
               IN IF HasNumericValue(OwnKeys(tft), tft.vals)
                  THEN Sample(SensorValues(OwnKeys(tft), tft.vals, 1))
                  ELSE NoSample
     ELSE LET singleValueForChart == SingleValue(jsonData)
          IN IF ~singleValueForChart.nan
             THEN Sample(<<[k |-> ValueKey, v |-> singleValueForChart.v]>>)
             ELSE NoSample

\* ---------------------------------------------------------------- inputs
\* A payload is its text together with what JSON.parse gives for that text.
DeviceSerialKey == <<"d", "e", "v", "i", "c", "e", "_", "s", "e", "r", "i", "a", "l">>

\* {"device_serial":"D1","tftvalue":{"a":"1.5","b":"x"}}
PayloadMulti ==
  [text |-> <<"{", "\"", "d", "e", "v", "i", "c", "e", "_", "s", "e", "r", "i", "a", "l", "\"", ":", "\"", "D", "1", "\"", ",", "\"", "t", "f", "t", "v", "a", "l", "u", "e", "\"", ":", "{", "\"", "a", "\"", ":", "\"", "1", ".", "5", "\"", ",", "\"", "b", "\"", ":", "\"", "x", "\"", "}", "}">>,
   json |-> JObj(<<DeviceSerialKey, TftKey>>,
                 <<JStr(<<"D", "1">>),
                   JObj(<<<<"a">>, <<"b">>>>, <<JStr(<<"1", ".", "5">>), JStr(<<"x">>)>>)>>)]

\* 42.0 is valid JSON: a bare number
PayloadNumber == [text |-> <<"4", "2", ".", "0">>, json |-> JNum(420)]

\* hello: JSON.parse throws, parseFloat gives NaN
PayloadHello == [text |-> <<"h", "e", "l", "l", "o">>, json |-> JInvalid]

\* {"tftvalue":{"__proto__":5}}: JSON.parse makes __proto__ an own property
PayloadProto ==
  [text |-> <<"{", "\"", "t", "f", "t", "v", "a", "l", "u", "e", "\"", ":", "{", "\"", "_", "_", "p", "r", "o", "t", "o", "_", "_", "\"", ":", "5", "}", "}">>,
   json |-> JObj(<<TftKey>>, <<JObj(<<ProtoKey>>, <<JNum(50)>>)>>)]

\* {"device_serial":"D2","tftvalue":{"a":"1.5","b":"x"}}: PayloadMulti of another device
PayloadMultiD2 ==
  [text |-> <<"{", "\"", "d", "e", "v", "i", "c", "e", "_", "s", "e", "r", "i", "a", "l", "\"", ":", "\"", "D", "2", "\"", ",", "\"", "t", "f", "t", "v", "a", "l", "u", "e", "\"", ":", "{", "\"", "a", "\"", ":", "\"", "1", ".", "5", "\"", ",", "\"", "b", "\"", ":", "\"", "x", "\"", "}", "}">>,
   json |-> JObj(<<DeviceSerialKey, TftKey>>,
                 <<JStr(<<"D", "2">>),
                   JObj(<<<<"a">>, <<"b">>>>, <<JStr(<<"1", ".", "5">>), JStr(<<"x">>)>>)>>)]

\* {"device_serial":"D1","tftvalue":{"a":"2"},"value":7}: a nested map and a value field
PayloadBoth ==
  [text |-> <<"{", "\"", "d", "e", "v", "i", "c", "e", "_", "s", "e", "r", "i", "a", "l", "\"", ":", "\"", "D", "1", "\"", ",", "\"", "t", "f", "t", "v", "a", "l", "u", "e", "\"", ":", "{", "\"", "a", "\"", ":", "\"", "2", "\"", "}", ",", "\"", "v", "a", "l", "u", "e", "\"", ":", "7", "}">>,
   json |-> JObj(<<DeviceSerialKey, TftKey, ValueKey>>,
                 <<JStr(<<"D", "1">>), JObj(<<<<"a">>>>, <<JStr(<<"2">>)>>), JNum(70)>>)]

\* {"tftvalue":{"b":"x"},"value":7}: a nested map with no number, and a value field
PayloadTftText ==
  [text |-> <<"{", "\"", "t", "f", "t", "v", "a", "l", "u", "e", "\"", ":", "{", "\"", "b", "\"", ":", "\"", "x", "\"", "}", ",", "\"", "v", "a", "l", "u", "e", "\"", ":", "7", "}">>,
   json |-> JObj(<<TftKey, ValueKey>>, <<JObj(<<<<"b">>>>, <<JStr(<<"x">>)>>), JNum(70)>>)]

\* {"value":7}
PayloadValue ==
  [text |-> <<"{", "\"", "v", "a", "l", "u", "e", "\"", ":", "7", "}">>,
   json |-> JObj(<<ValueKey>>, <<JNum(70)>>)]

\* {"a":"x","b":3,"c":4}
PayloadFirstNumber ==
  [text |-> <<"{", "\"", "a", "\"", ":", "\"", "x", "\"", ",", "\"", "b", "\"", ":", "3", ",", "\"", "c", "\"", ":", "4", "}">>,
   json |-> JObj(<<<<"a">>, <<"b">>, <<"c">>>>, <<JStr(<<"x">>), JNum(30), JNum(40)>>)]

\* {"a":"x"}
PayloadNoNumber ==
  [text |-> <<"{", "\"", "a", "\"", ":", "\"", "x", "\"", "}">>,
   json |-> JObj(<<<<"a">>>>, <<JStr(<<"x">>)>>)]

\* null: valid JSON, and jsonData.value throws a TypeError
PayloadNull ==
  [text |-> <<"n", "u", "l", "l">>,
   json |-> JNull]

\* "7": a JSON string
PayloadString ==
  [text |-> <<"\"", "7", "\"">>,
   json |-> JStr(<<"7">>)]

\* true
PayloadTrue ==
  [text |-> <<"t", "r", "u", "e">>,
   json |-> JBool(TRUE)]

\* ["a"]
PayloadArray ==
  [text |-> <<"[", "\"", "a", "\"", "]">>,
   json |-> JArr(<<JStr(<<"a">>)>>)]

\* 7up: JSON.parse throws, parseFloat reads the leading 7
PayloadPrefix ==
  [text |-> <<"7", "u", "p">>,
   json |-> JInvalid]

\* the payloads that exercise every branch of the normalisation
NormalizePayloads ==
  {PayloadMulti, PayloadMultiD2, PayloadBoth, PayloadTftText, PayloadProto, PayloadValue,
   PayloadFirstNumber, PayloadNoNumber, PayloadNumber, PayloadNull, PayloadString,
   PayloadTrue, PayloadArray, PayloadHello, PayloadPrefix}

Payloads == {PayloadMulti, PayloadHello}

WindowPayloads == {PayloadNumber, PayloadHello}

SinkPayloads == {PayloadNumber, PayloadHello, PayloadProto}

\* Date.now() readings; the wall clock may repeat or step back
Timestamps == {1}

WindowTimestamps == {1}

\* what a behaviour may use: clients, suspended calls, samples per window, payloads,
\* clock readings
SpecBudget ==
  [clients |-> MaxSpecClients, pending |-> MaxPending, msgs |-> MaxMsgs,
   payloads |-> Payloads, times |-> Timestamps, sink |-> FALSE]

CommittedBudget ==
  [clients |-> MaxClients, pending |-> MaxPending, msgs |-> MaxMsgs,
   payloads |-> Payloads, times |-> Timestamps, sink |-> FALSE]

WindowBudget ==
  [clients |-> MaxWindowClients, pending |-> MaxWindowPending, msgs |-> MaxWindowMsgs,
   payloads |-> WindowPayloads, times |-> WindowTimestamps, sink |-> FALSE]

\* SpecSink follows the saveMqttData calls, and its timestamps need not increase
SinkTimestamps == {1, 2}

SinkBudget ==
  [clients |-> MaxWindowClients, pending |-> MaxWindowPending, msgs |-> MaxSinkMsgs,
   payloads |-> SinkPayloads, times |-> SinkTimestamps, sink |-> TRUE]

NormalizeBudget ==
  [clients |-> MaxWindowClients, pending |-> MaxWindowPending, msgs |-> MaxNormalizeMsgs,
   payloads |-> NormalizePayloads, times |-> Timestamps, sink |-> FALSE]

\* ----------------------------------------------------------------- state
VARIABLES
  moduleLoaded,             \* mqttModuleRef.current is set
  mqttClient,               \* useState mqttClient: a client, or NoClient for null
  rMqttClient,              \* mqttClient of the last committed render (the closures' value)
  connectionStatus,         \* useState connectionStatus
  connectionStatusRef,      \* connectionStatusRef.current (and the closures' connectionStatus)
  isManuallyDisconnecting,  \* isManuallyDisconnectingRef.current
  currentTopic,             \* useState currentTopic
  dataPoints,               \* useState dataPoints
  tc,                       \* the transport clients: st is none, open, ending (end was
                            \* called), closed or ended; connected is client.connected;
                            \* subs counts the subscribe callbacks not yet called
  pend,                     \* the calls suspended at their await, in call order
  accepted,                 \* history: the samples pushed since dataPoints was last set to []
  cancelled,                \* history: the clients opened by a connectMqtt call during
                            \* whose await a disconnectMqtt call was made
  saves,                    \* the saveMqttData calls that have not settled, in call order
  replacedData,             \* history: dataPoints was non-empty when the connectMqtt
                            \* call that last emptied it was made
  last                      \* history: the toast of the last call or event, the
                            \* client when it was a connect event or a failed
                            \* subscribe callback, the text it handed to
                            \* saveMqttData, and the seq of the sample whose
                            \* saveMqttData call it saw rejected

vars ==
  <<moduleLoaded, mqttClient, rMqttClient, connectionStatus, connectionStatusRef,
    isManuallyDisconnecting, currentTopic, dataPoints, tc, pend, accepted, cancelled,
    replacedData, saves, last>>

NoTopic == "null"

NoToast == "none"

\* no text was handed to saveMqttData
NoSave == {}

Did(toast, op, c) ==
  [toast |-> toast, op |-> op, client |-> c, saved |-> NoSave, rejected |-> 0]

Other(toast) == Did(toast, "other", NoClient)

Init ==
  /\ moduleLoaded = FALSE
  /\ mqttClient = NoClient
  /\ rMqttClient = NoClient
  /\ connectionStatus = "disconnected"
  /\ connectionStatusRef = "disconnected"
  /\ isManuallyDisconnecting = FALSE
  /\ currentTopic = NoTopic
  /\ dataPoints = <<>>
  /\ tc = [c \in Clients |-> [st |-> "none", connected |-> FALSE, subs |-> 0]]
  /\ pend = <<>>
  /\ accepted = <<>>
  /\ cancelled = {}
  /\ replacedData = FALSE
  /\ saves = <<>>
  /\ last = Other(NoToast)

\* ------------------------------------------------------------- transport
\* client.end(true): a client that is open starts its teardown, and its
\* outstanding subscribe callbacks are not called; ending a client whose teardown
\* has started or finished changes nothing
End(t, c) ==
  IF c # NoClient /\ t[c].st = "open"
  THEN [t EXCEPT ![c] = [st |-> "ending", connected |-> @.connected, subs |-> 0]]
  ELSE t

Opened == {c \in Clients : tc[c].st # "none"}

PendingConnects == {i \in 1..Len(pend) : pend[i].kind = "connect"}

\* history: a disconnectMqtt call is made while these connectMqtt calls are suspended
MarkCancelled(s) ==
  [i \in 1..Len(s) |-> IF s[i].kind = "connect" THEN [s[i] EXCEPT !.cancelled = TRUE]
                       ELSE s[i]]

\* the client the next mqtt.connect returns
NewClient == Cardinality(Opened) + 1

RemoveAt(s, i) == SubSeq(s, 1, i - 1) \o SubSeq(s, i + 1, Len(s))

\* d.sourceId of a DataPoint d: the interface DataPoint has the properties
\* timestamp and values and no other, so the read gives undefined
SourceIdOf(d) == JUndefined

\* an updater that appends and never trims
PushUntrimmed(prevData, newDataPoint) == Append(prevData, newDataPoint)

\* an updater that keeps the window ordered by timestamp
PushSorted(prevData, newDataPoint) ==
  LET k == Cardinality({i \in 1..Len(prevData) :
                          prevData[i].timestamp <= newDataPoint.timestamp})
  IN SubSeq(prevData, 1, k) \o <<newDataPoint>> \o SubSeq(prevData, k + 1, Len(prevData))

\* the updater of setDataPoints in the message handler
Push(prevData, newDataPoint) ==
  LET updatedData == Append(prevData, newDataPoint)
  IN IF Len(updatedData) > MAX_DATA_POINTS
     THEN SubSeq(updatedData, Len(updatedData) - MAX_DATA_POINTS + 1, Len(updatedData))
     ELSE updatedData

\* --------------------------------------------------------------- actions
\* the import('mqtt') effect resolves and sets mqttModuleRef.current
LoadModule ==
  /\ ~moduleLoaded
  /\ moduleLoaded' = TRUE
  /\ last' = Other(NoToast)
  /\ UNCHANGED <<saves, mqttClient, rMqttClient, connectionStatus, connectionStatusRef,
                 isManuallyDisconnecting, currentTopic, dataPoints, tc, pend, accepted,
                 cancelled, replacedData>>

\* React commits a render: the closures see the new mqttClient, the effect on
\* connectionStatus mirrors it into connectionStatusRef, and when mqttClient
\* changed the cleanup of the effect on mqttClient runs with the previous client.
Render ==
  /\ mqttClient # rMqttClient \/ connectionStatus # connectionStatusRef
  /\ rMqttClient' = mqttClient
  /\ connectionStatusRef' = connectionStatus
  /\ IF mqttClient # rMqttClient /\ rMqttClient # NoClient
     THEN /\ isManuallyDisconnecting' = TRUE
          /\ tc' = End(tc, rMqttClient)
     ELSE UNCHANGED <<isManuallyDisconnecting, tc>>
  /\ UNCHANGED <<saves, moduleLoaded, mqttClient, connectionStatus, currentTopic, dataPoints,
                 pend, accepted, cancelled, replacedData, last>>

\* connectMqtt from setMqttClient(null) to its end; cl is the mqttClient of the
\* call's closure, throws says whether mqtt.connect throws
ConnectBody(cl, throws, had) ==
  /\ replacedData' = had
  /\ dataPoints' = <<>>
  /\ accepted' = <<>>
  /\ currentTopic' = HARDCODED_TOPIC
  /\ isManuallyDisconnecting' = FALSE
  /\ IF throws
     THEN /\ connectionStatus' =
               IF connectionStatusRef # "error" THEN "error" ELSE "connecting"
          /\ tc' = End(tc, cl)
          /\ mqttClient' = NoClient
          /\ last' = Other(IF connectionStatusRef # "error" THEN "Connection Failed"
                           ELSE NoToast)
     ELSE /\ connectionStatus' = "connecting"
          /\ tc' = [tc EXCEPT ![NewClient].st = "open"]
          /\ mqttClient' = NewClient
          /\ last' = Other(NoToast)

\* a connectMqtt that does not look at mqttModuleRef
ConnectMqttUnchecked(b, throws) ==
  /\ Cardinality(Opened) + Cardinality(PendingConnects) < b.clients
  /\ ConnectBody(rMqttClient, throws, dataPoints # <<>>)
  /\ UNCHANGED <<saves, moduleLoaded, rMqttClient, connectionStatusRef, cancelled, pend>>

\* a call of connectMqtt, up to its await or, without one, to its end
ConnectMqtt(b, throws) ==
  /\ Cardinality(Opened) + Cardinality(PendingConnects) < b.clients
  /\ IF ~moduleLoaded
     THEN /\ last' = Other("MQTT library not loaded yet")
          /\ UNCHANGED <<mqttClient, connectionStatus, isManuallyDisconnecting, currentTopic,
                         dataPoints, tc, pend, accepted, replacedData>>
     ELSE IF rMqttClient # NoClient /\ tc[rMqttClient].connected
     THEN /\ Len(pend) < b.pending
          /\ isManuallyDisconnecting' = TRUE
          /\ tc' = End(tc, rMqttClient)
          /\ pend' = Append(pend, [kind |-> "connect", client |-> rMqttClient,
                                   cancelled |-> FALSE, hadData |-> dataPoints # <<>>])
          /\ last' = Other(NoToast)
          /\ UNCHANGED <<mqttClient, connectionStatus, currentTopic, dataPoints, accepted,
                         replacedData>>
     ELSE /\ ConnectBody(rMqttClient, throws, dataPoints # <<>>)
          /\ UNCHANGED pend
  /\ UNCHANGED <<saves, moduleLoaded, rMqttClient, connectionStatusRef, cancelled>>

\* connectMqtt resumes after its await: the old client's end callback has run
ConnectResume(i, throws) ==
  /\ pend[i].kind = "connect"
  /\ tc[pend[i].client].st = "ended"
  /\ pend' = RemoveAt(pend, i)
  /\ ConnectBody(pend[i].client, throws, pend[i].hadData)
  /\ cancelled' = IF pend[i].cancelled /\ ~throws THEN cancelled \cup {NewClient}
                  ELSE cancelled
  /\ UNCHANGED <<saves, moduleLoaded, rMqttClient, connectionStatusRef>>

\* a call of disconnectMqtt, up to its await or, with no client, to its end
DisconnectMqtt(b) ==
  /\ IF rMqttClient # NoClient
     THEN /\ Len(pend) < b.pending
          /\ isManuallyDisconnecting' = TRUE
          /\ tc' = End(tc, rMqttClient)
          /\ pend' = Append(MarkCancelled(pend),
                            [kind |-> "disconnect", client |-> rMqttClient,
                             cancelled |-> FALSE, hadData |-> FALSE])
          /\ UNCHANGED connectionStatus
     ELSE /\ connectionStatus' =
               IF connectionStatusRef # "disconnected" THEN "disconnected"
               ELSE connectionStatus
          /\ pend' = MarkCancelled(pend)
          /\ UNCHANGED <<isManuallyDisconnecting, tc>>
  /\ last' = Other(NoToast)
  /\ UNCHANGED <<saves, moduleLoaded, mqttClient, rMqttClient, connectionStatusRef, currentTopic,
                 dataPoints, accepted, cancelled, replacedData>>

\* a continuation of disconnectMqtt that leaves dataPoints as it is
DisconnectResumeKeepsData(i) ==
  /\ pend[i].kind = "disconnect"
  /\ tc[pend[i].client].st = "ended"
  /\ pend' = RemoveAt(pend, i)
  /\ connectionStatus' = "disconnected"
  /\ mqttClient' = NoClient
  /\ currentTopic' = NoTopic
  /\ isManuallyDisconnecting' = FALSE
  /\ replacedData' = FALSE
  /\ last' = Other("Disconnected by user")
  /\ UNCHANGED <<saves, moduleLoaded, rMqttClient, connectionStatusRef, tc, cancelled, dataPoints,
                 accepted>>

\* disconnectMqtt resumes after its await
DisconnectResume(i) ==
  /\ pend[i].kind = "disconnect"
  /\ tc[pend[i].client].st = "ended"
  /\ pend' = RemoveAt(pend, i)
  /\ connectionStatus' = "disconnected"
  /\ mqttClient' = NoClient
  /\ currentTopic' = NoTopic
  /\ dataPoints' = <<>>
  /\ accepted' = <<>>
  /\ isManuallyDisconnecting' = FALSE
  /\ replacedData' = FALSE
  /\ last' = Other("Disconnected by user")
  /\ UNCHANGED <<saves, moduleLoaded, rMqttClient, connectionStatusRef, tc, cancelled>>

\* client.on("connect"): the handler, and the subscribe call it makes
OnConnect(c) ==
  /\ tc[c].st = "open"
  /\ tc[c].subs < MaxSubPending
  /\ tc' = [tc EXCEPT ![c] = [st |-> "open", connected |-> TRUE, subs |-> @.subs + 1]]
  /\ connectionStatus' =
       IF connectionStatusRef # "connected" THEN "connected" ELSE connectionStatus
  /\ last' = Did(IF connectionStatusRef # "connected" THEN "Connected" ELSE NoToast,
                 "connect", c)
  /\ UNCHANGED <<saves, moduleLoaded, mqttClient, rMqttClient, connectionStatusRef,
                 isManuallyDisconnecting, currentTopic, dataPoints, pend, accepted,
                 cancelled, replacedData>>

\* the callback of client.subscribe, with or without an error
OnSubscribeAck(c, err) ==
  /\ tc[c].st = "open"
  /\ tc[c].subs > 0
  /\ connectionStatus' = IF err THEN "error" ELSE connectionStatus
  /\ tc' = IF err THEN End(tc, c) ELSE [tc EXCEPT ![c].subs = @ - 1]
  /\ last' = IF err THEN Did("Subscription Error", "subfail", c) ELSE Other(NoToast)
  /\ UNCHANGED <<saves, moduleLoaded, mqttClient, rMqttClient, connectionStatusRef,
                 isManuallyDisconnecting, currentTopic, dataPoints, pend, accepted,
                 cancelled, replacedData>>

\* a message handler that calls saveMqttData only for a message that pushed a sample
OnMessageSavesSamples(b, c, p, t) ==
  /\ tc[c].st = "open"
  /\ tc[c].connected
  /\ Len(accepted) < b.msgs
  /\ b.sink => Len(saves) < MaxSaves
  /\ LET newDataPoint ==
           [seq |-> Len(accepted) + 1, client |-> c, timestamp |-> t,
            values |-> Normalize(p).values]
     IN IF Normalize(p).push
        THEN /\ dataPoints' = Push(dataPoints, newDataPoint)
             /\ accepted' = Append(accepted, newDataPoint)
             /\ saves' = IF b.sink
                         THEN Append(saves, [text |-> p.text, seq |-> Len(accepted) + 1])
                         ELSE saves
             /\ last' = [Other(NoToast) EXCEPT !.saved = {p.text}]
        ELSE /\ UNCHANGED <<dataPoints, accepted, saves>>
             /\ last' = Other(NoToast)
  /\ UNCHANGED <<moduleLoaded, mqttClient, rMqttClient, connectionStatus,
                 connectionStatusRef, isManuallyDisconnecting, currentTopic, tc, pend,
                 cancelled, replacedData>>

\* a message handler that runs only when no saveMqttData call is pending
OnMessageAfterSave(b, c, p, t) ==
  /\ saves = <<>>
  /\ tc[c].st = "open"
  /\ tc[c].connected
  /\ Len(accepted) < b.msgs
  /\ b.sink => Len(saves) < MaxSaves
  /\ LET newDataPoint ==
           [seq |-> Len(accepted) + 1, client |-> c, timestamp |-> t,
            values |-> Normalize(p).values]
     IN IF Normalize(p).push
        THEN /\ dataPoints' = Push(dataPoints, newDataPoint)
             /\ accepted' = Append(accepted, newDataPoint)
        ELSE UNCHANGED <<dataPoints, accepted>>
  /\ saves' = IF b.sink
              THEN Append(saves, [text |-> p.text,
                                  seq |-> IF Normalize(p).push
                                          THEN Len(accepted) + 1 ELSE 0])
              ELSE saves
  /\ last' = [Other(NoToast) EXCEPT !.saved = {p.text}]
  /\ UNCHANGED <<moduleLoaded, mqttClient, rMqttClient, connectionStatus,
                 connectionStatusRef, isManuallyDisconnecting, currentTopic, tc, pend,
                 cancelled, replacedData>>

\* a message handler with no try block around the normalisation: what the try
\* block throws ends the handler
OnMessageUncaught(b, c, p, t) ==
  /\ tc[c].st = "open"
  /\ tc[c].connected
  /\ Len(accepted) < b.msgs
  /\ b.sink => Len(saves) < MaxSaves
  /\ LET newDataPoint ==
           [seq |-> Len(accepted) + 1, client |-> c, timestamp |-> t,
            values |-> Normalize(p).values]
     IN IF Normalize(p).push /\ ~TryThrows(p.json)
        THEN /\ dataPoints' = Push(dataPoints, newDataPoint)
             /\ accepted' = Append(accepted, newDataPoint)
        ELSE UNCHANGED <<dataPoints, accepted>>
  /\ saves' = IF b.sink /\ ~TryThrows(p.json)
              THEN Append(saves, [text |-> p.text,
                                  seq |-> IF Normalize(p).push
                                          THEN Len(accepted) + 1 ELSE 0])
              ELSE saves
  /\ last' = [Other(NoToast) EXCEPT
               !.saved = IF TryThrows(p.json) THEN NoSave ELSE {p.text}]
  /\ UNCHANGED <<moduleLoaded, mqttClient, rMqttClient, connectionStatus,
                 connectionStatusRef, isManuallyDisconnecting, currentTopic, tc, pend,
                 cancelled, replacedData>>

\* client.on("message") up to its await of saveMqttData.  The call is recorded in
\* last; a specification that follows the sink (b.sink) keeps it in saves until it
\* settles.
OnMessage(b, c, p, t) ==
  /\ tc[c].st = "open"
  /\ tc[c].connected
  /\ Len(accepted) < b.msgs
  /\ b.sink => Len(saves) < MaxSaves
  /\ LET newDataPoint ==
           [seq |-> Len(accepted) + 1, client |-> c, timestamp |-> t,
            values |-> Normalize(p).values]
     IN IF Normalize(p).push
        THEN /\ dataPoints' = Push(dataPoints, newDataPoint)
             /\ accepted' = Append(accepted, newDataPoint)
        ELSE UNCHANGED <<dataPoints, accepted>>
  /\ saves' = IF b.sink
              THEN Append(saves, [text |-> p.text,
                                  seq |-> IF Normalize(p).push
                                          THEN Len(accepted) + 1 ELSE 0])
              ELSE saves
  /\ last' = [Other(NoToast) EXCEPT !.saved = {p.text}]
  /\ UNCHANGED <<moduleLoaded, mqttClient, rMqttClient, connectionStatus,
                 connectionStatusRef, isManuallyDisconnecting, currentTopic, tc, pend,
                 cancelled, replacedData>>

\* the promise of a saveMqttData call resolves: the handler ends
SaveResolve(i) ==
  /\ saves' = RemoveAt(saves, i)
  /\ last' = Other(NoToast)
  /\ UNCHANGED <<moduleLoaded, mqttClient, rMqttClient, connectionStatus,
                 connectionStatusRef, isManuallyDisconnecting, currentTopic, dataPoints,
                 tc, pend, accepted, cancelled, replacedData>>

\* a catch block that takes the sample of the rejected call out of dataPoints
SaveRejectRollsBack(i) ==
  /\ saves' = RemoveAt(saves, i)
  /\ last' = [Other("Firebase Error") EXCEPT !.rejected = saves[i].seq]
  /\ dataPoints' = SelectSeq(dataPoints, LAMBDA d : d.seq # saves[i].seq)
  /\ UNCHANGED <<moduleLoaded, mqttClient, rMqttClient, connectionStatus,
                 connectionStatusRef, isManuallyDisconnecting, currentTopic, tc, pend,
                 accepted, cancelled, replacedData>>

\* the promise of a saveMqttData call rejects: the handler's catch block
SaveReject(i) ==
  /\ saves' = RemoveAt(saves, i)
  /\ last' = [Other("Firebase Error") EXCEPT !.rejected = saves[i].seq]
  /\ UNCHANGED <<moduleLoaded, mqttClient, rMqttClient, connectionStatus,
                 connectionStatusRef, isManuallyDisconnecting, currentTopic, dataPoints,
                 tc, pend, accepted, cancelled, replacedData>>

\* client.on("error"); a client being torn down may still report errors
OnError(c) ==
  /\ tc[c].st \in {"open", "ending", "closed"}
  /\ connectionStatus' =
       IF connectionStatusRef # "error" /\ ~isManuallyDisconnecting THEN "error"
       ELSE connectionStatus
  /\ last' = Other(IF connectionStatusRef # "error" /\ ~isManuallyDisconnecting
                   THEN "MQTT Error" ELSE NoToast)
  /\ UNCHANGED <<saves, moduleLoaded, mqttClient, rMqttClient, connectionStatusRef,
                 isManuallyDisconnecting, currentTopic, dataPoints, tc, pend, accepted,
                 cancelled, replacedData>>

\* client.on("close"): the connection of an open client is lost, or the stream of
\* a client being torn down is destroyed
OnClose(c) ==
  /\ tc[c].st \in {"open", "ending"}
  /\ tc' = [tc EXCEPT ![c] = [st |-> IF @.st = "ending" THEN "closed" ELSE @.st,
                              connected |-> FALSE, subs |-> @.subs]]
  /\ connectionStatus' =
       IF isManuallyDisconnecting
       THEN (IF connectionStatusRef # "disconnected" THEN "disconnected"
             ELSE connectionStatus)
       ELSE IF connectionStatusRef # "error" /\ connectionStatusRef # "disconnected"
       THEN "disconnected"
       ELSE connectionStatus
  /\ last' = Other(IF ~isManuallyDisconnecting /\ connectionStatusRef # "error"
                      /\ connectionStatusRef # "disconnected"
                   THEN "Connection closed" ELSE NoToast)
  /\ UNCHANGED <<saves, moduleLoaded, mqttClient, rMqttClient, connectionStatusRef,
                 isManuallyDisconnecting, currentTopic, dataPoints, pend, accepted,
                 cancelled, replacedData>>

\* an offline handler that does not read connectionStatusRef
OnOfflineUnguarded(c) ==
  /\ tc[c].st = "open"
  /\ connectionStatus' = IF ~isManuallyDisconnecting THEN "disconnected" ELSE connectionStatus
  /\ last' = Other(IF ~isManuallyDisconnecting THEN "Broker is offline" ELSE NoToast)
  /\ UNCHANGED <<saves, moduleLoaded, mqttClient, rMqttClient, connectionStatusRef,
                 isManuallyDisconnecting, currentTopic, dataPoints, tc, pend, accepted,
                 cancelled, replacedData>>

\* client.on('offline')
OnOffline(c) ==
  /\ tc[c].st = "open"
  /\ connectionStatus' =
       IF connectionStatusRef = "connected" /\ ~isManuallyDisconnecting
       THEN "disconnected" ELSE connectionStatus
  /\ last' = Other(IF connectionStatusRef = "connected" /\ ~isManuallyDisconnecting
                   THEN "Broker is offline" ELSE NoToast)
  /\ UNCHANGED <<saves, moduleLoaded, mqttClient, rMqttClient, connectionStatusRef,
                 isManuallyDisconnecting, currentTopic, dataPoints, tc, pend, accepted,
                 cancelled, replacedData>>

\* client.on('reconnect')
OnReconnect(c) ==
  /\ tc[c].st = "open"
  /\ connectionStatus' =
       IF ~isManuallyDisconnecting /\ connectionStatusRef # "connecting"
       THEN "connecting" ELSE connectionStatus
  /\ last' = Other(NoToast)
  /\ UNCHANGED <<saves, moduleLoaded, mqttClient, rMqttClient, connectionStatusRef,
                 isManuallyDisconnecting, currentTopic, dataPoints, tc, pend, accepted,
                 cancelled, replacedData>>

\* the callback given to end(true, resolve) runs: the teardown is confirmed and
\* the client emits nothing more
EndConfirm(c) ==
  /\ tc[c].st = "closed"
  /\ tc' = [tc EXCEPT ![c].st = "ended"]
  /\ last' = Other(NoToast)
  /\ UNCHANGED <<saves, moduleLoaded, mqttClient, rMqttClient, connectionStatus,
                 connectionStatusRef, isManuallyDisconnecting, currentTopic, dataPoints,
                 pend, accepted, cancelled, replacedData>>

\* a call, a continuation of a call, or an event of the transport
Step(b) ==
  \/ LoadModule
  \/ \E throws \in BOOLEAN : ConnectMqtt(b, throws)
  \/ \E i \in 1..Len(pend), throws \in BOOLEAN : ConnectResume(i, throws)
  \/ DisconnectMqtt(b)
  \/ \E i \in 1..Len(pend) : DisconnectResume(i)
  \/ \E c \in Clients : OnConnect(c)
  \/ \E c \in Clients, err \in BOOLEAN : OnSubscribeAck(c, err)
  \/ \E c \in Clients, p \in b.payloads, t \in b.times : OnMessage(b, c, p, t)
  \/ \E c \in Clients : OnError(c)
  \/ \E c \in Clients : OnClose(c)
  \/ \E c \in Clients : OnOffline(c)
  \/ \E c \in Clients : OnReconnect(c)
  \/ \E c \in Clients : EndConfirm(c)

\* React commits at any time after an update: calls and events may run before it
Next == Render \/ Step(SpecBudget)

Spec == Init /\ [][Next]_vars

\* the last render shows the current state
Committed == rMqttClient = mqttClient /\ connectionStatusRef = connectionStatus

\* React commits every update before the next call or event is handled; the end
\* callback and the continuations it resumes run without waiting for a commit
NextCommitted ==
  \/ Render
  \/ Committed /\ LoadModule
  \/ Committed /\ \E throws \in BOOLEAN : ConnectMqtt(CommittedBudget, throws)
  \/ \E i \in 1..Len(pend), throws \in BOOLEAN : ConnectResume(i, throws)
  \/ Committed /\ DisconnectMqtt(CommittedBudget)
  \/ \E i \in 1..Len(pend) : DisconnectResume(i)
  \/ Committed /\ \E c \in Clients : OnConnect(c)
  \/ Committed /\ \E c \in Clients, err \in BOOLEAN : OnSubscribeAck(c, err)
  \/ Committed /\ \E c \in Clients, p \in CommittedBudget.payloads,
                        t \in CommittedBudget.times :
       OnMessage(CommittedBudget, c, p, t)
  \/ Committed /\ \E c \in Clients : OnError(c)
  \/ Committed /\ \E c \in Clients : OnClose(c)
  \/ Committed /\ \E c \in Clients : OnOffline(c)
  \/ Committed /\ \E c \in Clients : OnReconnect(c)
  \/ \E c \in Clients : EndConfirm(c)

SpecCommitted == Init /\ [][NextCommitted]_vars

\* The window under load: calls, connect and close events and messages only, with
\* enough messages to fill dataPoints.
NextWindow ==
  \/ LoadModule
  \/ Render
  \/ ConnectMqtt(WindowBudget, FALSE)
  \/ DisconnectMqtt(WindowBudget)
  \/ \E i \in 1..Len(pend) : DisconnectResume(i)
  \/ \E c \in Clients : OnConnect(c)
  \/ \E c \in Clients, p \in WindowBudget.payloads, t \in WindowBudget.times :
       OnMessage(WindowBudget, c, p, t)
  \/ \E c \in Clients : OnClose(c)
  \/ \E c \in Clients : EndConfirm(c)

SpecWindow == Init /\ [][NextWindow]_vars

\* The persistence sink: one session, its messages, and the saveMqttData calls
\* settling in any order.
NextSink ==
  \/ LoadModule
  \/ Render
  \/ ConnectMqtt(SinkBudget, FALSE)
  \/ DisconnectMqtt(SinkBudget)
  \/ \E i \in 1..Len(pend) : DisconnectResume(i)
  \/ \E c \in Clients : OnConnect(c)
  \/ \E c \in Clients, p \in SinkBudget.payloads, t \in SinkBudget.times :
       OnMessage(SinkBudget, c, p, t)
  \/ \E i \in 1..Len(saves) : SaveResolve(i)
  \/ \E i \in 1..Len(saves) : SaveReject(i)
  \/ \E c \in Clients : OnClose(c)
  \/ \E c \in Clients : EndConfirm(c)

SpecSink == Init /\ [][NextSink]_vars

\* The normalisation: one connected session that is handed every kind of payload.
NextNormalize ==
  \/ LoadModule
  \/ Render
  \/ ConnectMqtt(NormalizeBudget, FALSE)
  \/ \E c \in Clients : OnConnect(c)
  \/ \E c \in Clients, p \in NormalizeBudget.payloads, t \in NormalizeBudget.times :
       OnMessage(NormalizeBudget, c, p, t)

SpecNormalize == Init /\ [][NextNormalize]_vars

\* The transport confirms every closure it was asked for, and a call whose await
\* is resolved continues: end(true, resolve) closes the stream, calls resolve, and
\* the continuation runs.
Fairness ==
  /\ WF_vars(\E c \in Clients : tc[c].st = "ending" /\ OnClose(c))
  /\ WF_vars(\E c \in Clients : EndConfirm(c))
  /\ WF_vars(\E i \in 1..Len(pend) : DisconnectResume(i))

SpecFair == Spec /\ Fairness

\* ---------------------------------------------------------------- claims
\* the events a transport client delivers to its handlers
StatusEventOf(c) ==
  OnConnect(c) \/ OnError(c) \/ OnClose(c) \/ OnOffline(c) \/ OnReconnect(c)

MessageEventOf(b, c) == \E p \in b.payloads, t \in b.times : OnMessage(b, c, p, t)

\* the last n elements of s
LastN(s, n) == IF Len(s) > n THEN SubSeq(s, Len(s) - n + 1, Len(s)) ELSE s

\* C1: dataPoints never holds more than MAX_DATA_POINTS samples, and it is exactly
\* the last min(k, MAX_DATA_POINTS) of the k samples pushed since it was last
\* emptied, in the order they were pushed.
C1_WindowBound ==
  /\ Len(dataPoints) <= MAX_DATA_POINTS
  /\ dataPoints = LastN(accepted, MAX_DATA_POINTS)
  /\ \A i \in 1..Len(accepted) : accepted[i].seq = i

\* C1 witness: more than MAX_DATA_POINTS samples were pushed and the oldest two
\* have been evicted.
C1_Witness ==
  /\ Len(accepted) = MAX_DATA_POINTS + 2
  /\ Len(dataPoints) = MAX_DATA_POINTS
  /\ dataPoints[1].seq = 3

\* C2: at most one transport client is opened and not yet force-closed.
C2_OneSession == Cardinality({c \in Clients : tc[c].st = "open"}) <= 1

\* C3: when a disconnectMqtt call was made while a connectMqtt call was suspended
\* at its await, then once no call is suspended the status is disconnected and the
\* client that connectMqtt opened is not open.
C3_Cancellation ==
  \A c \in cancelled :
    pend = <<>> => connectionStatus = "disconnected" /\ tc[c].st # "open"

\* the calls of disconnectMqtt suspended on client c
Disconnecting(c) ==
  \E i \in 1..Len(pend) : pend[i].kind = "disconnect" /\ pend[i].client = c

\* C4: while disconnectMqtt awaits the end of a client, the close and error events
\* of that client never set the status to error.
C4_ManualDisconnectGuard ==
  [][\A c \in Clients :
       (Disconnecting(c) /\ tc[c].st \in {"ending", "closed"}
        /\ (OnError(c) \/ OnClose(c)))
       => (connectionStatus' = "error" => connectionStatus = "error")]_vars

\* C5: a connect event that directly follows a connect event of the same client
\* makes no subscribe call and shows no toast.
C5_ConnectIdempotent ==
  [][\A c \in Clients :
       (last.op = "connect" /\ last.client = c /\ OnConnect(c))
       => (tc'[c].subs = tc[c].subs /\ last'.toast = NoToast)]_vars

\* C6: the manualDisconnect flag is false whenever no call is suspended awaiting
\* the end of a client.
C6_FlagOnlyDuringTeardown == pend = <<>> => ~isManuallyDisconnecting

\* C7: after a connectMqtt call made with dataPoints non-empty has opened a client,
\* dataPoints holds no sample of another client.
C7_ReconnectClearsWindow ==
  (mqttClient # NoClient /\ replacedData) =>
    \A i \in 1..Len(dataPoints) : dataPoints[i].client = mqttClient

\* C8: an event of a client that is no longer the session's client changes neither
\* connectionStatus nor dataPoints.
C8_SupersededEventsIgnored ==
  [][\A c \in Clients :
       (tc[c].st # "none" /\ c # mqttClient
        /\ (StatusEventOf(c) \/ MessageEventOf(CommittedBudget, c)))
       => UNCHANGED <<connectionStatus, dataPoints>>]_vars

\* C9: the close event that follows a failed subscribe callback leaves the status
\* at error.
C9_SubscribeFailureFatal ==
  [][\A c \in Clients :
       (last.op = "subfail" /\ last.client = c /\ OnClose(c))
       => connectionStatus' = "error"]_vars

C11_FailedAttemptIsError ==
  [][\A c \in Clients :
       (c = mqttClient /\ Committed /\ connectionStatus = "connecting"
        /\ ~isManuallyDisconnecting /\ OnClose(c))
       => connectionStatus' = "error"]_vars

\* C12: every step that changes connectionStatus to disconnected leaves dataPoints
\* empty.
C12_DisconnectedClearsWindow ==
  [][(connectionStatus # "disconnected" /\ connectionStatus' = "disconnected")
       => dataPoints' = <<>>]_vars

\* C13: a disconnectMqtt call with a session sets the manualDisconnect flag and
\* force-closes the client in its first step and resets nothing in that step; its
\* continuation runs only when the client's end is confirmed and then leaves the
\* status disconnected, mqttClient null, currentTopic null and dataPoints empty;
\* and, the transport confirming closures, every suspended disconnectMqtt call
\* leads to such a completion.
C13_DisconnectCompletes ==
  /\ [][(rMqttClient # NoClient /\ DisconnectMqtt(SpecBudget))
          => /\ isManuallyDisconnecting'
             /\ tc'[rMqttClient].st # "open"
             /\ UNCHANGED <<connectionStatus, mqttClient, currentTopic, dataPoints>>]_vars
  /\ [][\A i \in 1..Len(pend) :
          DisconnectResume(i)
          => /\ tc[pend[i].client].st = "ended"
             /\ connectionStatus' = "disconnected"
             /\ mqttClient' = NoClient
             /\ currentTopic' = NoTopic
             /\ dataPoints' = <<>>]_vars
  /\ (\E i \in 1..Len(pend) : pend[i].kind = "disconnect")
       ~> (/\ last.toast = "Disconnected by user"
           /\ connectionStatus = "disconnected"
           /\ mqttClient = NoClient
           /\ currentTopic = NoTopic
           /\ dataPoints = <<>>)

\* C13 witness: a disconnectMqtt call made on a session has completed after the
\* end of its client was confirmed, and React has not committed yet.
C13_Witness ==
  /\ last.toast = "Disconnected by user"
  /\ pend = <<>>
  /\ connectionStatus = "disconnected"
  /\ mqttClient = NoClient
  /\ rMqttClient # NoClient
  /\ tc[rMqttClient].st = "ended"
  /\ dataPoints = <<>>

\* C14: a disconnectMqtt call made while there is no session (mqttClient is null,
\* in the state and in the call's closure) leaves the status disconnected and
\* changes neither dataPoints, currentTopic, mqttClient, the manualDisconnect flag
\* nor any transport client.
C14_DisconnectWithoutSession ==
  [][(mqttClient = NoClient /\ rMqttClient = NoClient /\ DisconnectMqtt(SpecBudget))
       => /\ connectionStatus' = "disconnected"
          /\ UNCHANGED <<dataPoints, currentTopic, mqttClient, isManuallyDisconnecting,
                         tc>>]_vars

\* C15: a connectMqtt call made before the mqtt module is loaded shows the "not
\* loaded" toast and changes neither connectionStatus, dataPoints, currentTopic,
\* mqttClient, the manualDisconnect flag, any transport client nor the suspended
\* calls.
C15_ConnectBeforeLoad ==
  [][(~moduleLoaded /\ \E throws \in BOOLEAN : ConnectMqtt(SpecBudget, throws))
       => /\ last'.toast = "MQTT library not loaded yet"
          /\ UNCHANGED <<connectionStatus, dataPoints, currentTopic, mqttClient,
                         isManuallyDisconnecting, tc, pend>>]_vars

\* C15 witness: connectMqtt was called before the module was loaded.
C15_Witness == ~moduleLoaded /\ last.toast = "MQTT library not loaded yet"

\* C16: the samples of dataPoints are in the order in which their messages were
\* delivered (seq is the position of the message among those that pushed a sample
\* since the last reset), whatever their timestamps and whichever saveMqttData
\* calls have settled.
C16_DeliveryOrder ==
  \A i, j \in 1..Len(dataPoints) : i < j => dataPoints[i].seq < dataPoints[j].seq

\* C16 witness: two samples whose timestamps decrease are in the window in delivery
\* order, the save of the second has settled and the save of the first has not.
C16_Witness ==
  /\ Len(dataPoints) = 2
  /\ dataPoints[1].timestamp > dataPoints[2].timestamp
  /\ Len(saves) = 1
  /\ saves[1].seq = 1

\* C17: every message event hands the raw text of its payload to saveMqttData,
\* once, whether or not the message pushed a sample: the call is the one call of
\* the step and it is added to the calls that have not settled.
C17_EveryMessageForwarded ==
  [][\A c \in Clients, p \in SinkBudget.payloads, t \in SinkBudget.times :
       OnMessage(SinkBudget, c, p, t)
       => /\ last'.saved = {p.text}
          /\ Len(saves') = Len(saves) + 1
          /\ SubSeq(saves', 1, Len(saves)) = saves
          /\ saves'[Len(saves')].text = p.text]_vars

\* C17 witness: a message that pushed no sample was handed to saveMqttData.
C17_Witness ==
  /\ last.saved = {PayloadHello.text}
  /\ dataPoints = <<>>
  /\ Len(saves) = 1
  /\ saves[1] = [text |-> PayloadHello.text, seq |-> 0]

\* C18: a saveMqttData call that rejects changes neither connectionStatus,
\* mqttClient, the manualDisconnect flag nor dataPoints; it shows a toast.
C18_SaveFailureChangesNothing ==
  [][\A i \in 1..Len(saves) :
       SaveReject(i)
       => /\ UNCHANGED <<connectionStatus, mqttClient, isManuallyDisconnecting, dataPoints,
                         currentTopic, tc>>
          /\ last'.toast = "Firebase Error"]_vars

\* C18 witness: the saveMqttData call of the message that pushed the first sample
\* was rejected, and the sample is in dataPoints of the connected session.
C18_Witness ==
  /\ last.toast = "Firebase Error"
  /\ last.rejected = 1
  /\ dataPoints # <<>>
  /\ dataPoints[1].seq = 1
  /\ connectionStatus = "connected"

\* C19: while the saveMqttData call of an earlier message is pending, the handler of
\* a later message that carries a sample can run, and that step pushes the sample
\* and leaves the earlier calls pending.
C19_SinkNeverBlocksIngestion ==
  \A c \in Clients :
    (/\ saves # <<>>
     /\ Len(saves) < MaxSaves
     /\ tc[c].st = "open"
     /\ tc[c].connected
     /\ Len(accepted) < SinkBudget.msgs)
    => ENABLED (/\ MessageEventOf(SinkBudget, c)
                /\ SubSeq(saves', 1, Len(saves)) = saves
                /\ dataPoints' # <<>>
                /\ dataPoints'[Len(dataPoints')].seq = Len(accepted) + 1
                /\ dataPoints'[Len(dataPoints')].values # NoValues)

\* C19 witness: the second sample was pushed while the saveMqttData call of the
\* first was pending, and both calls are pending.
C19_Witness ==
  /\ Len(saves) = 2
  /\ saves[1].seq = 1
  /\ saves[2].seq = 2
  /\ Len(dataPoints) = 2
  /\ dataPoints[2].seq = 2

\* C20: every DataPoint in dataPoints carries at least one named numeric value.
C20_NonEmptyFieldMap ==
  \A i \in 1..Len(dataPoints) : dataPoints[i].values # NoValues

\* a decoded record with an identity field and a nested map of values
HasIdentityAndMap(j) ==
  /\ j.t = "object"
  /\ Prop(j, DeviceSerialKey).t = "string"
  /\ Prop(j, TftKey).t = "object"

\* the entries of a nested map that coerce to a number, in the map's order
NumericEntries(tft) ==
  LET all == [i \in 1..Len(tft.keys) |->
                [k |-> tft.keys[i], n |-> ParseFloat(ToChars(tft.vals[i]))]]
      kept == SelectSeq(all, LAMBDA e : ~e.n.nan)
  IN [i \in 1..Len(kept) |-> [k |-> kept[i].k, v |-> kept[i].n.v]]

\* C21: for a payload that decodes to a record with an identity field and a nested
\* map with a numeric entry, the handler pushes one sample whose values are exactly
\* the numeric entries of the nested map (also when the record has a value field)
\* and whose sourceId is the identity field.
C21_MultiFieldPath ==
  [][\A c \in Clients, p \in NormalizeBudget.payloads, t \in NormalizeBudget.times :
       (/\ HasIdentityAndMap(p.json)
        /\ NumericEntries(Prop(p.json, TftKey)) # <<>>
        /\ OnMessage(NormalizeBudget, c, p, t))
       => /\ Len(dataPoints') = Len(dataPoints) + 1
          /\ dataPoints'[Len(dataPoints')].values = NumericEntries(Prop(p.json, TftKey))
          /\ SourceIdOf(dataPoints'[Len(dataPoints')]) = Prop(p.json, DeviceSerialKey)]_vars

\* the multi-field path emits a sample: the record has a nested map with a numeric
\* entry
MultiFieldEmits(j) ==
  /\ j.t = "object"
  /\ Prop(j, TftKey).t = "object"
  /\ NumericEntries(Prop(j, TftKey)) # <<>>

\* the numeric content of a decoded record: a bare number, the numeric value field,
\* or the first numeric entry; NaN when there is none
ScalarOf(j) ==
  LET numeric == {i \in 1..Len(j.vals) : j.vals[i].t = "number"}
  IN IF j.t = "number" THEN Num(j.num)
     ELSE IF j.t = "object" /\ numeric # {}
     THEN IF Prop(j, ValueKey).t = "number" THEN Num(Prop(j, ValueKey).num)
          ELSE Num(j.vals[CHOOSE i \in numeric : \A k \in numeric : i <= k].num)
     ELSE NaN

\* the single number of the scalar fallback: the numeric content of the decoded
\* record, and without any the raw text read as a decimal number
FallbackOf(p) ==
  IF p.json.t # "invalid" /\ ~ScalarOf(p.json).nan THEN ScalarOf(p.json)
  ELSE ParseFloat(p.text)

\* C22: for a payload on which the multi-field path emits no sample, the handler
\* pushes a one-field value sample when the decoded record has numeric content
\* (value field first, else the first numeric entry) or, without any, when the raw
\* text reads as a decimal number.
C22_ScalarFallback ==
  [][\A c \in Clients, p \in NormalizeBudget.payloads, t \in NormalizeBudget.times :
       (/\ ~MultiFieldEmits(p.json)
        /\ ~FallbackOf(p).nan
        /\ OnMessage(NormalizeBudget, c, p, t))
       => /\ Len(dataPoints') = Len(dataPoints) + 1
          /\ dataPoints'[Len(dataPoints')].values
               = <<[k |-> ValueKey, v |-> FallbackOf(p).v]>>]_vars

\* a payload from which no numeric value can be extracted
NoNumericContent(p) == ~MultiFieldEmits(p.json) /\ FallbackOf(p).nan

\* C23: for every payload the message handler runs on to its saveMqttData call
\* (nothing is raised out of the normalisation), and it leaves connectionStatus,
\* the session and the transport as they are; for a payload with no numeric
\* content it also leaves dataPoints unchanged and shows nothing.
C23_MalformedAbsorbed ==
  [][\A c \in Clients, p \in NormalizeBudget.payloads, t \in NormalizeBudget.times :
       OnMessage(NormalizeBudget, c, p, t)
       => /\ last'.saved = {p.text}
          /\ UNCHANGED <<connectionStatus, mqttClient, isManuallyDisconnecting, tc>>
          /\ NoNumericContent(p) => UNCHANGED dataPoints /\ last'.toast = NoToast]_vars

\* C23 witness: the connected session has handled the payload null, whose
\* normalisation throws a TypeError, and dataPoints is empty.
C23_Witness ==
  /\ last.saved = {PayloadNull.text}
  /\ NoNumericContent(PayloadNull)
  /\ connectionStatus = "connected"
  /\ dataPoints = <<>>

\* C24: an error event handled while the manualDisconnect flag is false leaves
\* connectionStatus at error, whatever the status was.
C24_ErrorEventSetsError ==
  [][\A c \in Clients :
       (~isManuallyDisconnecting /\ OnError(c)) => connectionStatus' = "error"]_vars

\* C25: with the manualDisconnect flag false, offline while connected gives
\* disconnected and reconnect gives connecting, and no offline, reconnect or connect
\* event sets the status to error, clears mqttClient or closes the client.
C25_TransientNetworkLoss ==
  [][\A c \in Clients :
       ~isManuallyDisconnecting
       => /\ (connectionStatus = "connected" /\ OnOffline(c))
             => connectionStatus' = "disconnected"
          /\ OnReconnect(c) => connectionStatus' = "connecting"
          /\ (OnOffline(c) \/ OnReconnect(c) \/ OnConnect(c))
             => /\ connectionStatus' = "error" => connectionStatus = "error"
                /\ mqttClient' = mqttClient
                /\ tc'[c].st = "open"]_vars

\* connectMqtt runs from setMqttClient(null) on, mqtt.connect throws, and the
\* catch block runs
CatchBlockRuns ==
  \/ /\ moduleLoaded
     /\ ~(rMqttClient # NoClient /\ tc[rMqttClient].connected)
     /\ ConnectMqtt(CommittedBudget, TRUE)
  \/ \E i \in 1..Len(pend) : ConnectResume(i, TRUE)

\* C26: when a handler of a transport event reads connectionStatusRef.current it
\* reads the value of connectionStatus, and when the catch block of connectMqtt
\* reads it, it reads the status connecting that the call has just written.
C26_HandlersReadCurrentStatus ==
  [][/\ (\E c \in Clients : StatusEventOf(c)) => connectionStatusRef = connectionStatus
     /\ CatchBlockRuns => connectionStatusRef = "connecting"]_vars

\* C27: when mqtt.connect throws inside connectMqtt, the call leaves connectionStatus
\* at error and mqttClient null, whatever the status was before.
C27_ConnectThrowsIsError ==
  [][CatchBlockRuns => connectionStatus' = "error" /\ mqttClient' = NoClient]_vars

\* C28: with no connectMqtt or disconnectMqtt call suspended, a status of connecting
\* or connected means that mqttClient holds a client and that client is open.
C28_StatusImpliesSession ==
  (pend = <<>> /\ connectionStatus \in {"connecting", "connected"})
  => (mqttClient # NoClient /\ tc[mqttClient].st = "open")

\* C29: a message event changes dataPoints only when connectionStatus is connected.
C29_SamplesOnlyWhileConnected ==
  [][\A c \in Clients :
       (MessageEventOf(CommittedBudget, c) /\ dataPoints' # dataPoints)
       => connectionStatus = "connected"]_vars

\* disconnectMqtt has completed and connectMqtt has not run since: only the
\* continuation of disconnectMqtt sets currentTopic to null, and every connectMqtt
\* that gets past its await sets it to the topic
AfterUserTeardown == Opened # {} /\ currentTopic = NoTopic /\ mqttClient = NoClient

\* C30: after disconnectMqtt has completed and until connectMqtt runs, every
\* transport event leaves connectionStatus at disconnected and dataPoints empty.
C30_DisconnectedIsResting ==
  [][\A c \in Clients :
       (/\ AfterUserTeardown
        /\ connectionStatus = "disconnected"
        /\ dataPoints = <<>>
        /\ (StatusEventOf(c) \/ MessageEventOf(CommittedBudget, c)))
       => connectionStatus' = "disconnected" /\ dataPoints' = <<>>]_vars

====
